---- MODULE Spec2Model ----
(***************************************************************************)
(* The posts router of the FastAPI application (app/routers/post.py) over  *)
(* its PostgreSQL store: the five handlers, the request schema             *)
(* (app/schemas.py) and the posts table (alembic/versions).                *)
(*                                                                         *)
(* A handler that issues one statement is one action.  delete_post and     *)
(* update_post issue several statements with a commit between them; each   *)
(* statement is a step, so that two requests interleave the way two worker *)
(* threads on two sessions do (READ COMMITTED: a statement sees what was   *)
(* committed before it started).                                           *)
(***************************************************************************)
EXTENDS Integers, Sequences, FiniteSets

\* ---------------------------------------------------------------- bounds

\* ids the posts_id_seq sequence hands out before the model stops creating
MaxPosts == 2
\* requests of delete_post / update_post that can be in flight together
MaxInFlight == 2

\* ------------------------------------------------------------- constants

\* get_posts: limit: int = 10
DefaultLimit == 10

HTTP_201_CREATED == 201
HTTP_204_NO_CONTENT == 204
HTTP_404_NOT_FOUND == 404
HTTP_403_FORBIDDEN == 403
HTTP_401_UNAUTHORIZED == 401
HTTP_200_OK == 200
HTTP_500_INTERNAL_SERVER_ERROR == 500

\* ------------------------------------------------------------ input sets

\* rows of the users table (no operation of the router adds or removes one)
Users == {1, 2}
\* ids a token can carry: the users, and one id no user has
TokenIds == Users \cup {3}
Tokens ==
    {[kind |-> k, id |-> 0] : k \in {"missing", "malformed", "expired"}}
        \cup {[kind |-> "valid", id |-> u] : u \in TokenIds}

Ids == 1..MaxPosts
Slots == 1..MaxInFlight

\* request bodies (schemas.PostCreate); published is {} when the request omits it.
\* A title is a sequence of characters.
Bodies ==
    { [title |-> <<"a">>,      content |-> "c1", published |-> {}],
      [title |-> <<"b">>,      content |-> "c2", published |-> {FALSE}] }

Searches == { <<>>, <<"a">>, <<"_">> }
Limits == {1, DefaultLimit}
Skips == {0, 1}
Queries == [search : Searches, limit : Limits, skip : Skips]

VARIABLES
    posts,      \* the posts table: a set of rows [id, title, content, published, owner_id]
    votes,      \* the votes table: a set of rows [post_id, user_id]
    next_id,    \* the next value of the posts id sequence
    req,        \* per slot, the delete_post / update_post request in flight
    last,       \* the response the last step sent (NoResp: it sent none)
    untouched   \* history: the create_posts requests whose row no UPDATE or
                \* DELETE has hit since, as [id, user, post]

vars == <<posts, votes, next_id, req, last, untouched>>

Idle == [pc |-> "idle", op |-> "none", user |-> 0, id |-> 0, post |-> <<>>]

NoResp ==
    [op |-> "none", slot |-> 0, token |-> <<>>, id |-> 0, post |-> <<>>,
     query |-> <<>>, status |-> 0, body |-> <<>>]

\* The response of a request: slot is 0 when the request's first step sent it,
\* and the slot of the request in flight otherwise.
Resp(op, slot, token, id, post, query, status, body) ==
    [op |-> op, slot |-> slot, token |-> <<token>>, id |-> id, post |-> post,
     query |-> query, status |-> status, body |-> body]

\* Depends(oauth2.get_current_user) failed: no handler argument is read.
Unauthorized(op, token) ==
    Resp(op, 0, token, 0, <<>>, <<>>, HTTP_401_UNAUTHORIZED, <<>>)

\* ------------------------------------------------------- pure operators

Min(a, b) == IF a < b THEN a ELSE b

\* oauth2.get_current_user: the user a token resolves to, <<>> when it is
\* missing, malformed, expired or names no existing user.
get_current_user(token) ==
    IF token.kind = "valid" /\ token.id \in Users THEN <<token.id>> ELSE <<>>

\* PostBase with published defaulting to False.
PostDict_default_false(post) ==
    [title |-> post.title, content |-> post.content,
     published |-> IF post.published = {} THEN FALSE
                   ELSE CHOOSE b \in post.published : TRUE]

\* post.dict() of a PostCreate: its three fields, published: bool = True.
PostDict(post) ==
    [title |-> post.title, content |-> post.content,
     published |-> IF post.published = {} THEN TRUE
                   ELSE CHOOSE b \in post.published : TRUE]

\* s LIKE p: % matches any run of characters, _ any one character.
RECURSIVE Like(_, _)
Like(s, p) ==
    IF p = <<>> THEN s = <<>>
    ELSE IF Head(p) = "%"
         THEN Like(s, Tail(p)) \/ (s # <<>> /\ Like(Tail(s), p))
         ELSE /\ s # <<>>
              /\ (Head(p) = "_" \/ Head(p) = Head(s))
              /\ Like(Tail(s), Tail(p))

\* models.Post.title.contains(search): title LIKE '%' || search || '%'
contains(title, search) == Like(title, <<"%">> \o search \o <<"%">>)

\* An inner join: a post with no vote has no row.
InnerJoin(P, V) ==
    UNION { {[Post |-> p, Vote |-> <<v>>] : v \in {w \in V : w.post_id = p.id}}
          : p \in P }

\* .join(models.Vote, models.Post.id == models.Vote.post_id, isouter=True):
\* a row per (post, vote of the post), and one with a NULL vote for a post
\* that has none.
OuterJoin(P, V) ==
    UNION { IF {v \in V : v.post_id = p.id} = {}
            THEN {[Post |-> p, Vote |-> <<>>]}
            ELSE {[Post |-> p, Vote |-> <<v>>] : v \in {w \in V : w.post_id = p.id}}
          : p \in P }

\* .group_by(models.Post.id) with func.count(models.Vote.post_id): one row
\* per post, counting the joined rows whose vote is not NULL.
GroupCount(J) ==
    { [Post |-> p, votes |-> Cardinality({j \in J : j.Post = p /\ j.Vote # <<>>})]
      : p \in {j.Post : j \in J} }

\* The orders a query without ORDER BY can return a set of rows in.
Orders(S) ==
    {f \in [1..Cardinality(S) -> S] : \A i, j \in 1..Cardinality(S) : f[i] = f[j] => i = j}

\* .limit(limit).offset(skip) on the rows in the order the store produced.
Page(rows, limit, skip) == SubSeq(rows, skip + 1, Min(Len(rows), skip + limit))

\* db.query(models.Post).filter(models.Post.id == id).first()
first(id) ==
    IF \E p \in posts : p.id = id
    THEN <<CHOOSE p \in posts : p.id = id>>
    ELSE <<>>

\* ---------------------------------------------------------------- Init

Init ==
    /\ posts = {}
    /\ votes = {}
    /\ next_id = 1
    /\ req = [s \in Slots |-> Idle]
    /\ last = NoResp
    /\ untouched = {}

\* -------------------------------------------------------------- handlers

\* get_posts without Depends(oauth2.get_current_user), as get_post is declared.
get_posts_no_auth(token, q) ==
    /\ \E rows \in Orders(GroupCount(OuterJoin(
                      {p \in posts : contains(p.title, q.search)}, votes))) :
          last' = Resp("get_posts", 0, token, 0, <<>>, <<q>>, HTTP_200_OK,
                       Page(rows, q.limit, q.skip))
    /\ UNCHANGED <<posts, votes, next_id, req, untouched>>

\* GET /posts/
get_posts(token, q) ==
    /\ \/ /\ get_current_user(token) = <<>>
          /\ last' = Unauthorized("get_posts", token)
       \/ /\ get_current_user(token) # <<>>
          /\ (q.limit < 0 \/ q.skip < 0)
          \* LIMIT / OFFSET must not be negative: the statement fails
          /\ last' = Resp("get_posts", 0, token, 0, <<>>, <<q>>,
                          HTTP_500_INTERNAL_SERVER_ERROR, <<>>)
       \/ /\ get_current_user(token) # <<>>
          /\ q.limit >= 0 /\ q.skip >= 0
          /\ \E rows \in Orders(GroupCount(OuterJoin(
                            {p \in posts : contains(p.title, q.search)}, votes))) :
                last' = Resp("get_posts", 0, token, 0, <<>>, <<q>>, HTTP_200_OK,
                             Page(rows, q.limit, q.skip))
    /\ UNCHANGED <<posts, votes, next_id, req, untouched>>

\* POST /posts/
create_posts(token, post) ==
    \/ /\ get_current_user(token) = <<>>
       /\ last' = Unauthorized("create_posts", token)
       /\ UNCHANGED <<posts, votes, next_id, req, untouched>>
    \/ /\ get_current_user(token) # <<>>
       /\ next_id <= MaxPosts
       /\ LET d == PostDict(post)
              new_post == [id |-> next_id, title |-> d.title, content |-> d.content,
                           published |-> d.published,
                           owner_id |-> get_current_user(token)[1]]
          IN /\ posts' = posts \cup {new_post}
             /\ untouched' = untouched \cup
                    {[id |-> next_id, user |-> get_current_user(token)[1], post |-> post]}
             /\ last' = Resp("create_posts", 0, token, next_id, <<post>>, <<>>,
                             HTTP_201_CREATED, <<new_post>>)
       /\ next_id' = next_id + 1
       /\ UNCHANGED <<votes, req>>

\* GET /posts/{id}
get_post(id) ==
    /\ LET rows == GroupCount(OuterJoin({p \in posts : p.id = id}, votes))
       IN \/ /\ rows = {}
             /\ last' = Resp("get_post", 0, <<>>, id, <<>>, <<>>, HTTP_404_NOT_FOUND, <<>>)
          \/ /\ rows # {}
             \* .first()
             /\ last' = Resp("get_post", 0, <<>>, id, <<>>, <<>>, HTTP_200_OK,
                             <<CHOOSE r \in rows : TRUE>>)
    /\ UNCHANGED <<posts, votes, next_id, req, untouched>>


\* delete_post without its ownership check.
delete_post_no_owner_check(s, token, id) ==
    /\ req[s].pc = "idle"
    /\ \/ /\ get_current_user(token) = <<>>
          /\ last' = Unauthorized("delete_post", token)
          /\ UNCHANGED req
       \/ /\ get_current_user(token) # <<>>
          /\ first(id) = <<>>
          /\ last' = Resp("delete_post", 0, token, id, <<>>, <<>>, HTTP_404_NOT_FOUND, <<>>)
          /\ UNCHANGED req
       \/ /\ get_current_user(token) # <<>>
          /\ first(id) # <<>>
          /\ req' = [req EXCEPT ![s] = [pc |-> "checked", op |-> "delete_post",
                                        user |-> get_current_user(token)[1],
                                        id |-> id, post |-> <<>>]]
          /\ last' = NoResp
    /\ UNCHANGED <<posts, votes, next_id, untouched>>

\* DELETE /posts/{id}, to its checks: the dependency, the first read, the
\* existence check and the ownership check.
delete_post(s, token, id) ==
    /\ req[s].pc = "idle"
    /\ \/ /\ get_current_user(token) = <<>>
          /\ last' = Unauthorized("delete_post", token)
          /\ UNCHANGED req
       \/ /\ get_current_user(token) # <<>>
          /\ first(id) = <<>>
          /\ last' = Resp("delete_post", 0, token, id, <<>>, <<>>, HTTP_404_NOT_FOUND, <<>>)
          /\ UNCHANGED req
       \/ /\ get_current_user(token) # <<>>
          /\ first(id) # <<>>
          /\ first(id)[1].owner_id # get_current_user(token)[1]
          /\ last' = Resp("delete_post", 0, token, id, <<>>, <<>>, HTTP_403_FORBIDDEN, <<>>)
          /\ UNCHANGED req
       \/ /\ get_current_user(token) # <<>>
          /\ first(id) # <<>>
          /\ first(id)[1].owner_id = get_current_user(token)[1]
          /\ req' = [req EXCEPT ![s] = [pc |-> "checked", op |-> "delete_post",
                                        user |-> get_current_user(token)[1],
                                        id |-> id, post |-> <<>>]]
          /\ last' = NoResp
    /\ UNCHANGED <<posts, votes, next_id, untouched>>

\* The votes of the posts that remain (votes.post_id references posts.id).
Cascade(V, P) == {v \in V : \E p \in P : p.id = v.post_id}

\* delete_post without db.commit(): the session closes and the DELETE is rolled back.
delete_post_no_commit(s) ==
    /\ req[s].pc = "checked"
    /\ req[s].op = "delete_post"
    /\ req' = [req EXCEPT ![s] = Idle]
    /\ last' = Resp("delete_post", s, [kind |-> "valid", id |-> req[s].user], req[s].id,
                    <<>>, <<>>, HTTP_204_NO_CONTENT, <<>>)
    /\ UNCHANGED <<posts, votes, next_id, untouched>>

\* post.delete(synchronize_session=False); db.commit(); return Response(204)
delete_post_commit(s) ==
    /\ req[s].pc = "checked"
    /\ req[s].op = "delete_post"
    /\ posts' = {p \in posts : p.id # req[s].id}
    /\ votes' = Cascade(votes, posts')
    /\ untouched' = {c \in untouched : c.id # req[s].id}
    /\ req' = [req EXCEPT ![s] = Idle]
    /\ last' = Resp("delete_post", s, [kind |-> "valid", id |-> req[s].user], req[s].id,
                    <<>>, <<>>, HTTP_204_NO_CONTENT, <<>>)
    /\ UNCHANGED next_id

\* update_post with the ownership check before the existence check: reading
\* owner_id of None raises, and the request fails.
update_post_owner_check_first(s, token, id, post) ==
    /\ req[s].pc = "idle"
    /\ \/ /\ get_current_user(token) = <<>>
          /\ last' = Unauthorized("update_post", token)
          /\ UNCHANGED req
       \/ /\ get_current_user(token) # <<>>
          /\ first(id) = <<>>
          /\ last' = Resp("update_post", 0, token, id, <<>>, <<>>,
                          HTTP_500_INTERNAL_SERVER_ERROR, <<>>)
          /\ UNCHANGED req
       \/ /\ get_current_user(token) # <<>>
          /\ first(id) # <<>>
          /\ first(id)[1].owner_id # get_current_user(token)[1]
          /\ last' = Resp("update_post", 0, token, id, <<>>, <<>>, HTTP_403_FORBIDDEN, <<>>)
          /\ UNCHANGED req
       \/ /\ get_current_user(token) # <<>>
          /\ first(id) # <<>>
          /\ first(id)[1].owner_id = get_current_user(token)[1]
          /\ req' = [req EXCEPT ![s] = [pc |-> "checked", op |-> "update_post",
                                        user |-> get_current_user(token)[1],
                                        id |-> id, post |-> <<post>>]]
          /\ last' = NoResp
    /\ UNCHANGED <<posts, votes, next_id, untouched>>

\* PUT /posts/{id}, to its checks.
update_post(s, token, id, post) ==
    /\ req[s].pc = "idle"
    /\ \/ /\ get_current_user(token) = <<>>
          /\ last' = Unauthorized("update_post", token)
          /\ UNCHANGED req
       \/ /\ get_current_user(token) # <<>>
          /\ first(id) = <<>>
          /\ last' = Resp("update_post", 0, token, id, <<>>, <<>>, HTTP_404_NOT_FOUND, <<>>)
          /\ UNCHANGED req
       \/ /\ get_current_user(token) # <<>>
          /\ first(id) # <<>>
          /\ first(id)[1].owner_id # get_current_user(token)[1]
          /\ last' = Resp("update_post", 0, token, id, <<>>, <<>>, HTTP_403_FORBIDDEN, <<>>)
          /\ UNCHANGED req
       \/ /\ get_current_user(token) # <<>>
          /\ first(id) # <<>>
          /\ first(id)[1].owner_id = get_current_user(token)[1]
          /\ req' = [req EXCEPT ![s] = [pc |-> "checked", op |-> "update_post",
                                        user |-> get_current_user(token)[1],
                                        id |-> id, post |-> <<post>>]]
          /\ last' = NoResp
    /\ UNCHANGED <<posts, votes, next_id, untouched>>

\* update_post with the UPDATE on db.query(models.Post), without the filter on id.
update_post_commit_all_rows(s) ==
    /\ req[s].pc = "checked"
    /\ req[s].op = "update_post"
    /\ LET d == PostDict(req[s].post[1])
       IN posts' = { [p EXCEPT !.title = d.title, !.content = d.content,
                               !.published = d.published] : p \in posts }
    /\ untouched' = {}
    /\ req' = [req EXCEPT ![s].pc = "committed"]
    /\ last' = NoResp
    /\ UNCHANGED <<votes, next_id>>

\* post_query.update(post.dict(), synchronize_session=False); db.commit()
update_post_commit(s) ==
    /\ req[s].pc = "checked"
    /\ req[s].op = "update_post"
    /\ LET d == PostDict(req[s].post[1])
       IN posts' = { IF p.id = req[s].id
                     THEN [p EXCEPT !.title = d.title, !.content = d.content,
                                    !.published = d.published]
                     ELSE p : p \in posts }
    /\ untouched' = {c \in untouched : c.id # req[s].id}
    /\ req' = [req EXCEPT ![s].pc = "committed"]
    /\ last' = NoResp
    /\ UNCHANGED <<votes, next_id>>

\* return post_query.first(), through response_model=schemas.Post: a row is
\* the 200 response; None does not validate as a Post and the request fails.
update_post_return(s) ==
    /\ req[s].pc = "committed"
    /\ \/ /\ first(req[s].id) # <<>>
          /\ last' = Resp("update_post", s, [kind |-> "valid", id |-> req[s].user],
                          req[s].id, req[s].post, <<>>, HTTP_200_OK, first(req[s].id))
       \/ /\ first(req[s].id) = <<>>
          /\ last' = Resp("update_post", s, [kind |-> "valid", id |-> req[s].user],
                          req[s].id, req[s].post, <<>>,
                          HTTP_500_INTERNAL_SERVER_ERROR, <<>>)
    /\ req' = [req EXCEPT ![s] = Idle]
    /\ UNCHANGED <<posts, votes, next_id, untouched>>

\* A Vote row is created (dir = 1) or removed (dir = 0) by a user for a post.
vote(user, id, dir) ==
    /\ \/ /\ dir = 1
          /\ first(id) # <<>>
          /\ [post_id |-> id, user_id |-> user] \notin votes
          /\ votes' = votes \cup {[post_id |-> id, user_id |-> user]}
       \/ /\ dir = 0
          /\ [post_id |-> id, user_id |-> user] \in votes
          /\ votes' = votes \ {[post_id |-> id, user_id |-> user]}
    /\ last' = NoResp
    /\ UNCHANGED <<posts, next_id, req, untouched>>

\* ------------------------------------------------------------------ Next

\* The slot a request that arrives is served in: the first free one.
Free(s) == req[s].pc = "idle" /\ \A t \in Slots : t < s => req[t].pc # "idle"

\* No request of delete_post or update_post is in flight.
AllIdle == \A s \in Slots : req[s].pc = "idle"

\* Requests served one after the other, as a single client sends them: a
\* request arrives when the one before it has been answered, and a request in
\* flight runs its next statement.
Next ==
    \/ \E token \in Tokens, q \in Queries : AllIdle /\ get_posts(token, q)
    \/ \E token \in Tokens, post \in Bodies : AllIdle /\ create_posts(token, post)
    \/ \E id \in Ids : AllIdle /\ get_post(id)
    \/ \E s \in Slots, token \in Tokens, id \in Ids :
          AllIdle /\ Free(s) /\ delete_post(s, token, id)
    \/ \E s \in Slots, token \in Tokens, id \in Ids, post \in Bodies :
          AllIdle /\ Free(s) /\ update_post(s, token, id, post)
    \/ \E user \in Users, id \in Ids, dir \in {0, 1} : AllIdle /\ vote(user, id, dir)
    \/ \E s \in Slots : delete_post_commit(s)
    \/ \E s \in Slots : update_post_commit(s)
    \/ \E s \in Slots : update_post_return(s)

Spec == Init /\ [][Next]_vars

\* The writers of the posts table served concurrently: create_posts,
\* delete_post and update_post requests (and get_post, to observe the table)
\* arrive at any time, and the requests in flight interleave statement by
\* statement.
NextConcurrent ==
    \/ \E token \in Tokens, post \in Bodies : create_posts(token, post)
    \/ \E id \in Ids : get_post(id)
    \/ \E s \in Slots, token \in Tokens, id \in Ids : Free(s) /\ delete_post(s, token, id)
    \/ \E s \in Slots, token \in Tokens, id \in Ids, post \in Bodies :
          Free(s) /\ update_post(s, token, id, post)
    \/ \E s \in Slots : delete_post_commit(s)
    \/ \E s \in Slots : update_post_commit(s)
    \/ \E s \in Slots : update_post_return(s)

SpecConcurrent == Init /\ [][NextConcurrent]_vars

\* ------------------------------------------------------------ properties

\* The step sent a response.
Responded == last' # NoResp /\ last' # last

\* The response answers a request whose token resolved to a user.
Authenticated(r) == r.token # <<>> /\ get_current_user(r.token[1]) # <<>>

\* The user the request of response r was made by.
Caller(r) == get_current_user(r.token[1])[1]

Exists(P, id) == \E p \in P : p.id = id

\* The step admitted a request of delete_post or update_post in slot s: it
\* passed its checks and goes on to its write.
Admitted(s) == req[s].pc = "idle" /\ req'[s].pc = "checked"

\* The number of Vote rows whose post_id is id.
VoteRows(id) == Cardinality({v \in votes : v.post_id = id})

\* title contains search, as a string.
Substring(title, search) ==
    \E i \in 0..(Len(title) - Len(search)) :
        SubSeq(title, i + 1, i + Len(search)) = search

Max(a, b) == IF a > b THEN a ELSE b

\* C1: an update_post or delete_post request by an authenticated user B on the
\* id of a stored post P whose owner is not B is answered 403, is not admitted
\* to its write, and leaves the posts table as it was.
C1_NonOwnerForbidden ==
    [][ /\ ( /\ Responded
             /\ last'.op \in {"update_post", "delete_post"}
             /\ Authenticated(last')
             /\ \E P \in posts : P.id = last'.id /\ P.owner_id # Caller(last') )
           => (last'.status = HTTP_403_FORBIDDEN /\ posts' = posts)
        /\ \A s \in Slots :
              Admitted(s) =>
                 ~ \E P \in posts : P.id = req'[s].id /\ P.owner_id # req'[s].user
      ]_vars

\* C1 witness: a 403 was sent for a stored post that another user owns.
C1_Witness ==
    /\ last.op \in {"update_post", "delete_post"}
    /\ last.status = HTTP_403_FORBIDDEN
    /\ Authenticated(last)
    /\ \E P \in posts : P.id = last.id /\ P.owner_id # Caller(last)

\* C2: a get_post, update_post or delete_post request (authenticated, for the
\* last two) on an id no stored post has is answered 404, never 403, is not
\* admitted to a write, and leaves the store as it was.
C2_AbsentIdNotFound ==
    [][ /\ ( /\ Responded
             /\ last'.slot = 0
             /\ last'.op \in {"get_post", "update_post", "delete_post"}
             /\ (last'.op = "get_post" \/ Authenticated(last'))
             /\ ~ Exists(posts, last'.id) )
           => (last'.status = HTTP_404_NOT_FOUND /\ posts' = posts /\ votes' = votes)
        /\ \A s \in Slots : Admitted(s) => Exists(posts, req'[s].id)
      ]_vars

\* C2 witness: a non-owner (there is no owner) asked to update an id that was
\* handed out and is stored no more, and got 404.
C2_Witness ==
    /\ last.op = "update_post"
    /\ last.status = HTTP_404_NOT_FOUND
    /\ Authenticated(last)
    /\ last.id < next_id
    /\ ~ Exists(posts, last.id)
    /\ posts # {}

\* C3: a get_posts, create_posts, update_post or delete_post request whose
\* token is missing, malformed, expired or names no existing user is answered
\* 401 in its first step and changes nothing.
C3_InvalidTokenUnauthorized ==
    [][ ( /\ Responded
          /\ last'.op \in {"get_posts", "create_posts", "update_post", "delete_post"}
          /\ last'.token # <<>>
          /\ get_current_user(last'.token[1]) = <<>> )
        => ( /\ last'.status = HTTP_401_UNAUTHORIZED
             /\ last'.slot = 0
             /\ UNCHANGED <<posts, votes, next_id, req, untouched>> )
      ]_vars

\* C3 witness: a listing was refused to a token that names no existing user,
\* with posts in the store.
C3_Witness ==
    /\ last.op = "get_posts"
    /\ last.status = HTTP_401_UNAUTHORIZED
    /\ last.token[1].kind = "valid"
    /\ last.token[1].id \notin Users
    /\ posts # {}

C5_VoteCount ==
    [][ /\ ( Responded /\ last'.op = "get_post" /\ Exists(posts, last'.id) )
           => /\ last'.status = HTTP_200_OK
              /\ last'.body[1].Post \in posts
              /\ last'.body[1].Post.id = last'.id
              /\ last'.body[1].votes = VoteRows(last'.id)
        /\ ( Responded /\ last'.op = "get_posts" /\ last'.status = HTTP_200_OK )
           => /\ \A i \in 1..Len(last'.body) :
                    /\ last'.body[i].Post \in posts
                    /\ last'.body[i].votes = VoteRows(last'.body[i].Post.id)
              /\ ( /\ last'.query[1].search = <<>>
                   /\ last'.query[1].skip = 0
                   /\ last'.query[1].limit >= Cardinality(posts) )
                 => {last'.body[i].Post : i \in 1..Len(last'.body)} = posts
      ]_vars

\* C5 witness: a listing with a post nobody voted for and a post with two votes.
C5_Witness ==
    /\ last.op = "get_posts"
    /\ last.status = HTTP_200_OK
    /\ \E i, j \in 1..Len(last.body) :
          last.body[i].votes = 0 /\ last.body[j].votes = 2

\* C6: get_posts returns posts whose title contains search, whoever owns
\* them, each once, and exactly the matching posts that fit the page: their
\* number less skip, at most limit.
C6_ListingContainsSearch ==
    [][ ( Responded /\ last'.op = "get_posts" /\ last'.status = HTTP_200_OK )
        => LET q == last'.query[1]
               body == last'.body
               matching == {p \in posts : Substring(p.title, q.search)}
           IN /\ \A i \in 1..Len(body) : body[i].Post \in matching
              /\ \A i, j \in 1..Len(body) : body[i].Post.id = body[j].Post.id => i = j
              /\ Len(body) <= q.limit
              /\ Len(body) = Min(q.limit, Max(0, Cardinality(matching) - q.skip))
      ]_vars

\* C7: delete_post by the owner of a stored post is admitted; its write
\* answers 204 with no body and removes the rows with that id and no other;
\* an id that was handed out and is stored no more stays absent, and get_post,
\* update_post and delete_post on it are answered 404.
C7_DeleteRemovesExactlyThatPost ==
    [][ /\ ( /\ Responded
             /\ last'.op = "delete_post"
             /\ last'.slot = 0
             /\ Authenticated(last') )
           => ~ \E P \in posts : P.id = last'.id /\ P.owner_id = Caller(last')
        /\ ( Responded /\ last'.op = "delete_post" /\ last'.slot # 0 )
           => /\ last'.status = HTTP_204_NO_CONTENT
              /\ last'.body = <<>>
              /\ posts' = {p \in posts : p.id # last'.id}
        /\ \A id \in Ids : (id < next_id /\ ~ Exists(posts, id)) => ~ Exists(posts', id)
        /\ ( /\ Responded
             /\ last'.slot = 0
             /\ last'.op \in {"get_post", "update_post", "delete_post"}
             /\ (last'.op = "get_post" \/ Authenticated(last'))
             /\ last'.id < next_id
             /\ ~ Exists(posts, last'.id) )
           => last'.status = HTTP_404_NOT_FOUND
      ]_vars

\* C7 witness: a delete was answered 204, its post is gone and another is stored.
C7_Witness ==
    /\ last.op = "delete_post"
    /\ last.status = HTTP_204_NO_CONTENT
    /\ ~ Exists(posts, last.id)
    /\ posts # {}

\* C8: every stored post has one row, whose owner is an existing user; a row
\* appears only by a create_posts of its owner, under a new id; a row changes
\* or disappears only by the write of a request its owner made on its id, and
\* an update keeps its id and owner_id and sets title, content and published
\* from the request (published true when omitted).
C8_OwnerOnlyChanges ==
    [][ /\ \A p \in posts' :
              /\ p.owner_id \in Users
              /\ \A q \in posts' : q.id = p.id => q = p
              /\ ~ Exists(posts, p.id) =>
                    /\ p.id = next_id
                    /\ next_id' = next_id + 1
                    /\ last'.op = "create_posts"
                    /\ Caller(last') = p.owner_id
        /\ \A p \in posts :
              p \notin posts' =>
                 \E s \in Slots :
                    /\ req[s].pc = "checked"
                    /\ req'[s].pc # "checked"
                    /\ req[s].id = p.id
                    /\ req[s].user = p.owner_id
                    /\ \/ req[s].op = "delete_post" /\ ~ Exists(posts', p.id)
                       \/ /\ req[s].op = "update_post"
                          /\ [id |-> p.id, owner_id |-> p.owner_id,
                              title |-> req[s].post[1].title,
                              content |-> req[s].post[1].content,
                              published |-> (req[s].post[1].published # {FALSE})]
                                \in posts'
      ]_vars

\* C8 witness: the owner's update, which omitted published, was answered with
\* the row it left: published true.
C8_Witness ==
    /\ last.op = "update_post"
    /\ last.status = HTTP_200_OK
    /\ last.post[1].published = {}
    /\ last.body[1].published
    /\ last.body[1].owner_id = Caller(last)
    /\ last.body[1] \in posts
    /\ Cardinality(posts) = 2

\* C9: an update_post request that passed its checks is answered 200 with
\* the row the store holds for its id at its final read, a present row; and
\* every stored row holds the fields of one request.
C9_UpdateReturnsStoredRow ==
    [][ /\ ( Responded /\ last'.op = "update_post" /\ last'.slot # 0 )
           => /\ last'.status = HTTP_200_OK
              /\ last'.body # <<>>
              /\ last'.body = first(last'.id)
        /\ \A p \in posts' :
              \E b \in Bodies :
                 /\ p.title = PostDict(b).title
                 /\ p.content = PostDict(b).content
                 /\ p.published = PostDict(b).published
      ]_vars

\* C10: two get_posts calls with the same search, limit and skip and no write
\* between them return the same posts in the same order, and the pages at
\* skip 0 and skip 1 of limit 1 share no post.
C10_ListingDeterministic ==
    [][ ( /\ last.op = "get_posts" /\ last.status = HTTP_200_OK
          /\ last'.op = "get_posts" /\ last'.status = HTTP_200_OK
          /\ UNCHANGED <<posts, votes>> )
        => /\ last'.query = last.query => last'.body = last.body
           /\ ( /\ last.query[1].search = last'.query[1].search
                /\ last.query[1].limit = 1 /\ last'.query[1].limit = 1
                /\ last.query[1].skip = 0 /\ last'.query[1].skip = 1 )
              => \A i \in 1..Len(last.body), j \in 1..Len(last'.body) :
                    last.body[i].Post.id # last'.body[j].Post.id
      ]_vars

====
